---------------------------- MODULE Spec2Model ----------------------------
(***************************************************************************)
(* Model of two command-line utilities of the repository:                  *)
(*   - ci_combi.py:   ConfigurationGenerator, the exhaustive enumerator of  *)
(*                    alpha/beta electron placements (specification Spec);  *)
(*   - conversion.py: process_input_file, the PySCF -> Molpro determinant   *)
(*                    converter (specification SpecConv).                   *)
(* A Python str is modelled as a sequence of one-character strings, so     *)
(* that joining, splitting and stripping are computed, not assumed.        *)
(* Orbital positions are 0-based as in the source; the symbol of position  *)
(* p in a list d is d[p + 1].                                              *)
(***************************************************************************)
EXTENDS Integers, Sequences, FiniteSets

\* ------------------------------------------------------------------ bounds
MaxElectrons == 3      \* total_electrons and frozen_core range over 0..MaxElectrons
MaxIrreps == 2         \* irrep_specs has at most MaxIrreps entries
MaxCount == 2          \* every irrep has 0..MaxCount orbitals
MaxOrbitals == 4       \* the irreps have at most MaxOrbitals orbitals in total
MaxCalls == 2          \* generate_configurations() is called at most MaxCalls times
MaxConvOrbitals == 3   \* conversion: n_orbitals is MaxConvOrbitals - 1 or MaxConvOrbitals,
                       \* the indices written to the file are below MaxConvOrbitals
MaxConvElectrons == 3  \* conversion: n_electrons in 0..MaxConvElectrons
MaxLines == 2          \* conversion: the input file has 1..MaxLines data lines

VARIABLES
    \* fields of a ConfigurationGenerator instance
    total_electrons, frozen_core, active_electrons, irrep_specs, n_orbitals,
    irrep_positions,
    \* locals of _generate_spin_distributions and its position
    pc, n_alpha, n_beta, distributions, alpha_i, beta_i, alpha_pos, beta_pos,
    dist, k, valid_config,
    \* the sets returned by the calls made so far, oldest first
    results,
    \* conversion.py: CIConverter fields, the input file (a sequence of lines),
    \* the read position, the rows written, the warnings printed to stderr
    conv_n_orbitals, conv_n_electrons, infile, file_pos, outfile, warnings, conv_pc,
    \* the determinants the input file was written from, and whether it has a header
    dets, has_header

fields == <<total_electrons, frozen_core, active_electrons, irrep_specs, n_orbitals,
            irrep_positions>>
locals == <<n_alpha, n_beta, distributions, alpha_i, beta_i, alpha_pos, beta_pos,
            dist, k, valid_config>>
gen == <<fields, locals, pc, results>>
conv == <<conv_n_orbitals, conv_n_electrons, infile, file_pos, outfile, warnings,
          conv_pc, dets, has_header>>
vars == <<gen, conv>>

\* ------------------------------------------------------- sequence helpers
RECURSIVE SumSeq(_)
SumSeq(s) == IF s = <<>> THEN 0 ELSE Head(s) + SumSeq(Tail(s))

Min(a, b) == IF a < b THEN a ELSE b

\* Python's s[start:end] for 0 <= start, 0 <= end (out-of-range bounds clamp).
Slice(s, start, end) == SubSeq(s, start + 1, Min(end, Len(s)))

\* Python's sep.join(parts) with sep = ' '.
RECURSIVE JoinSpace(_)
JoinSpace(parts) ==
    IF parts = <<>> THEN <<>>
    ELSE IF Len(parts) = 1 THEN parts[1]
    ELSE parts[1] \o <<" ">> \o JoinSpace(Tail(parts))

\* All sequences over S of length 0..n.
SeqsUpTo(S, n) == UNION {[1..m -> S] : m \in 0..n}

\* --------------------------------------------------------------- __init__
\* self.irrep_positions: the (start, end) pair of every irrep, in dict order.
RECURSIVE PositionsFrom(_, _)
PositionsFrom(pos, counts) ==
    IF counts = <<>> THEN <<>>
    ELSE <<<<pos, pos + Head(counts)>>>> \o PositionsFrom(pos + Head(counts), Tail(counts))

IrrepPositions(specs) == PositionsFrom(0, specs)

\* ------------------------------------------------- itertools.combinations
\* The r-length tuples of increasing positions drawn from lo..n-1, in
\* lexicographic order (the order itertools.combinations(range(n), r) yields).
RECURSIVE CombFrom(_, _, _)
CombFrom(lo, n, r) ==
    IF r = 0 THEN << <<>> >>
    ELSE IF lo >= n THEN <<>>
    ELSE LET withLo == CombFrom(lo + 1, n, r - 1)
         IN  [i \in 1..Len(withLo) |-> <<lo>> \o withLo[i]] \o CombFrom(lo + 1, n, r)

combinations_skip_empty(n, r) == IF r = 0 THEN <<>> ELSE CombFrom(0, n, r)

combinations_clamped(n, r) == CombFrom(0, n, Min(r, n))

combinations(n, r) == CombFrom(0, n, r)

\* itertools.combinations raises ValueError("r must be non-negative") for r < 0.
CombinationsRaises(r) == r < 0

\* ------------------------------------------------- _format_configuration
RECURSIVE Groups(_, _)
Groups(distribution, positions) ==
    IF positions = <<>> THEN <<>>
    ELSE <<Slice(distribution, Head(positions)[1], Head(positions)[2])>>
         \o Groups(distribution, Tail(positions))

format_drop_separator(distribution, positions) ==
    Slice(distribution, 0, Len(distribution))

_format_configuration(distribution, positions) ==
    JoinSpace(Groups(distribution, positions))

\* ------------------------------------------- _generate_spin_distributions
NAlphaCeil(active) == (active + 1) \div 2

\* n_alpha = self.active_electrons // 2 (floor division, also when negative)
NAlpha(active) == active \div 2

\* n_beta = self.active_electrons - n_alpha
NBeta(active) == active - NAlpha(active)

\* dist = ['0'] * self.n_orbitals
EmptyDist(n) == [i \in 1..n |-> "0"]

PlaceAlphaAsBeta(d, positions) ==
    [i \in 1..Len(d) |-> IF \E j \in 1..Len(positions) : positions[j] + 1 = i
                         THEN "b" ELSE d[i]]

\* for pos in alpha_pos: dist[pos] = 'a'
PlaceAlpha(d, positions) ==
    [i \in 1..Len(d) |-> IF \E j \in 1..Len(positions) : positions[j] + 1 = i
                         THEN "a" ELSE d[i]]

BetaSymbolNoPairing(cur) ==
    CASE cur = "0" -> "b"
      [] cur = "a" -> "b"
      [] OTHER -> "invalid"

BetaSymbolWrongSpin(cur) ==
    CASE cur = "0" -> "a"
      [] cur = "a" -> "2"
      [] OTHER -> "invalid"

\* The symbol the beta overlay writes over the current one; "invalid" stands
\* for the else branch (valid_config = False; break).
BetaSymbol(cur) ==
    CASE cur = "0" -> "b"
      [] cur = "a" -> "2"
      [] OTHER -> "invalid"

\* ----------------------------------------------------------------- Init
NoTuple == <<>>

\* conversion.py is not running
ConvIdle ==
    /\ conv_n_orbitals = 0 /\ conv_n_electrons = 0
    /\ infile = <<>> /\ file_pos = 0 /\ outfile = <<>> /\ warnings = <<>>
    /\ conv_pc = "off"
    /\ dets = <<>> /\ has_header = FALSE

Init ==
    /\ ConvIdle
    /\ total_electrons \in 0..MaxElectrons
    /\ frozen_core \in 0..MaxElectrons
    /\ irrep_specs \in {s \in SeqsUpTo(0..MaxCount, MaxIrreps) : SumSeq(s) <= MaxOrbitals}
    /\ active_electrons = total_electrons - frozen_core
    /\ n_orbitals = SumSeq(irrep_specs)
    /\ irrep_positions = IrrepPositions(irrep_specs)
    /\ pc = "idle"
    /\ n_alpha = 0 /\ n_beta = 0
    /\ distributions = {}
    /\ alpha_i = 0 /\ beta_i = 0
    /\ alpha_pos = NoTuple /\ beta_pos = NoTuple
    /\ dist = <<>>
    /\ k = 0
    /\ valid_config = TRUE
    /\ results = <<>>

\* --------------------------------------------------------------- actions
\* generate_configurations() is entered: n_alpha, n_beta and the empty set are
\* set up and the outer iterator is created (which raises for n_alpha < 0).
Call ==
    /\ pc = "idle"
    /\ Len(results) < MaxCalls
    /\ n_alpha' = NAlpha(active_electrons)
    /\ n_beta' = NBeta(active_electrons)
    /\ distributions' = {}
    /\ alpha_i' = 0
    /\ pc' = IF CombinationsRaises(NAlpha(active_electrons)) THEN "raised" ELSE "alpha_loop"
    /\ UNCHANGED <<conv, fields, beta_i, alpha_pos, beta_pos, dist, k, valid_config, results>>

\* for alpha_pos in combinations(range(self.n_orbitals), n_alpha): next tuple;
\* the inner iterator is created (which raises for n_beta < 0).
AlphaNext ==
    /\ pc = "alpha_loop"
    /\ alpha_i < Len(combinations(n_orbitals, n_alpha))
    /\ alpha_pos' = combinations(n_orbitals, n_alpha)[alpha_i + 1]
    /\ alpha_i' = alpha_i + 1
    /\ beta_i' = 0
    /\ pc' = IF CombinationsRaises(n_beta) THEN "raised" ELSE "beta_loop"
    /\ UNCHANGED <<conv, fields, n_alpha, n_beta, distributions, beta_pos, dist, k,
                   valid_config, results>>

\* for beta_pos in combinations(range(self.n_orbitals), n_beta): next tuple;
\* dist is rebuilt with the alpha electrons placed, valid_config = True.
BetaNext ==
    /\ pc = "beta_loop"
    /\ beta_i < Len(combinations(n_orbitals, n_beta))
    /\ beta_pos' = combinations(n_orbitals, n_beta)[beta_i + 1]
    /\ beta_i' = beta_i + 1
    /\ dist' = PlaceAlpha(EmptyDist(n_orbitals), alpha_pos)
    /\ valid_config' = TRUE
    /\ k' = 1
    /\ pc' = "place_beta"
    /\ UNCHANGED <<conv, fields, n_alpha, n_beta, distributions, alpha_i, alpha_pos, results>>

\* the inner iterator is exhausted: back to the outer loop
BetaDone ==
    /\ pc = "beta_loop"
    /\ beta_i >= Len(combinations(n_orbitals, n_beta))
    /\ pc' = "alpha_loop"
    /\ UNCHANGED <<conv, fields, locals, results>>

\* one iteration of "for pos in beta_pos", or the end of that loop
PlaceBeta ==
    /\ pc = "place_beta"
    /\ IF k <= Len(beta_pos)
       THEN LET pos == beta_pos[k]
                sym == BetaSymbol(dist[pos + 1])
            IN  IF sym = "invalid"
                THEN /\ valid_config' = FALSE
                     /\ pc' = "add"
                     /\ UNCHANGED <<dist, k>>
                ELSE /\ dist' = [dist EXCEPT ![pos + 1] = sym]
                     /\ k' = k + 1
                     /\ UNCHANGED <<valid_config, pc>>
       ELSE /\ pc' = "add"
            /\ UNCHANGED <<dist, k, valid_config>>
    /\ UNCHANGED <<conv, fields, n_alpha, n_beta, distributions, alpha_i, beta_i, alpha_pos,
                   beta_pos, results>>

\* if valid_config: distributions.add(self._format_configuration(dist))
Add ==
    /\ pc = "add"
    /\ distributions' = IF valid_config
                        THEN distributions \cup {_format_configuration(dist, irrep_positions)}
                        ELSE distributions
    /\ pc' = "beta_loop"
    /\ UNCHANGED <<conv, fields, n_alpha, n_beta, alpha_i, beta_i, alpha_pos, beta_pos, dist,
                   k, valid_config, results>>

ReturnAndForget ==
    /\ pc = "alpha_loop"
    /\ alpha_i >= Len(combinations(n_orbitals, n_alpha))
    /\ results' = Append(results, distributions)
    /\ irrep_positions' = <<>>
    /\ pc' = "idle"
    /\ UNCHANGED <<conv, total_electrons, frozen_core, active_electrons, irrep_specs,
                   n_orbitals, locals>>

\* the outer iterator is exhausted: return distributions
Return ==
    /\ pc = "alpha_loop"
    /\ alpha_i >= Len(combinations(n_orbitals, n_alpha))
    /\ results' = Append(results, distributions)
    /\ pc' = "idle"
    /\ UNCHANGED <<conv, fields, locals>>

Next == Call \/ AlphaNext \/ BetaNext \/ BetaDone \/ PlaceBeta \/ Add \/ Return

Spec == Init /\ [][Next]_vars


\* ======================================================= conversion.py
Digits == <<"0", "1", "2", "3", "4", "5", "6", "7", "8", "9">>

IsDigit(c) == \E d \in 1..10 : Digits[d] = c

DigitValue(c) == (CHOOSE d \in 1..10 : Digits[d] = c) - 1

IsSpace(c) == c = " "

\* Python's str.split() without arguments: the maximal runs of non-whitespace.
RECURSIVE SplitFrom(_, _)
SplitFrom(s, cur) ==
    IF s = <<>> THEN (IF cur = <<>> THEN <<>> ELSE <<cur>>)
    ELSE IF IsSpace(Head(s))
         THEN (IF cur = <<>> THEN <<>> ELSE <<cur>>) \o SplitFrom(Tail(s), <<>>)
         ELSE SplitFrom(Tail(s), Append(cur, Head(s)))

Split(s) == SplitFrom(s, <<>>)

\* Python's s.strip('[]'): leading and trailing brackets removed.
RECURSIVE LStripBrackets(_)
LStripBrackets(s) ==
    IF s # <<>> /\ Head(s) \in {"[", "]"} THEN LStripBrackets(Tail(s)) ELSE s

RECURSIVE RStripBrackets(_)
RStripBrackets(s) ==
    IF s # <<>> /\ s[Len(s)] \in {"[", "]"}
    THEN RStripBrackets(SubSeq(s, 1, Len(s) - 1)) ELSE s

StripBrackets(s) == RStripBrackets(LStripBrackets(s))

\* int(x) on a token: its decimal value, or ValueError when it is not all digits.
RECURSIVE DecimalValue(_, _)
DecimalValue(tok, acc) ==
    IF tok = <<>> THEN acc
    ELSE DecimalValue(Tail(tok), 10 * acc + DigitValue(Head(tok)))

ParseInt(tok) ==
    IF tok # <<>> /\ \A i \in 1..Len(tok) : IsDigit(tok[i])
    THEN [ok |-> TRUE, val |-> DecimalValue(tok, 0)]
    ELSE [ok |-> FALSE, val |-> 0]

\* float(x) accepts the coefficient tokens of the input: digits around one '.'.
IsFloat(tok) ==
    /\ \A i \in 1..Len(tok) : IsDigit(tok[i]) \/ tok[i] = "."
    /\ \E i \in 1..Len(tok) : IsDigit(tok[i])
    /\ Cardinality({i \in 1..Len(tok) : tok[i] = "."}) <= 1

\* parse_determinant: [ok, val] with ok = FALSE for a ValueError
parse_determinant(det_str) ==
    LET stripped == StripBrackets(det_str)
        toks == Split(stripped)
    IN  IF stripped = <<>> THEN [ok |-> TRUE, val |-> <<>>]
        ELSE IF \A i \in 1..Len(toks) : ParseInt(toks[i]).ok
             THEN [ok |-> TRUE, val |-> [i \in 1..Len(toks) |-> ParseInt(toks[i]).val]]
             ELSE [ok |-> FALSE, val |-> <<>>]

\* One of the two loops of det_to_occupation: `mine` is the symbol of the spin
\* being placed, `other` the symbol of the opposite spin.
RECURSIVE PlaceSpin(_, _, _, _)
PlaceSpin(occupation, det, mine, other) ==
    IF det = <<>> THEN [ok |-> TRUE, val |-> occupation]
    ELSE LET orbital_idx == Head(det)
         IN  IF orbital_idx >= Len(occupation) THEN [ok |-> FALSE, val |-> occupation]
             ELSE IF occupation[orbital_idx + 1] = "0"
                  THEN PlaceSpin([occupation EXCEPT ![orbital_idx + 1] = mine],
                                 Tail(det), mine, other)
             ELSE IF occupation[orbital_idx + 1] = other
                  THEN PlaceSpin([occupation EXCEPT ![orbital_idx + 1] = "2"],
                                 Tail(det), mine, other)
             ELSE [ok |-> FALSE, val |-> occupation]

RECURSIVE ElectronsFound(_)
ElectronsFound(occupation) ==
    IF occupation = <<>> THEN 0
    ELSE (IF Head(occupation) = "2" THEN 2
          ELSE IF Head(occupation) \in {"a", "b"} THEN 1 ELSE 0)
         + ElectronsFound(Tail(occupation))

\* CIConverter.det_to_occupation: [ok, val] with ok = FALSE for a ValueError
det_to_occupation(orbitals, electrons, det_alpha, det_beta) ==
    LET afterAlpha == PlaceSpin([i \in 1..orbitals |-> "0"], det_alpha, "a", "b")
        afterBeta == PlaceSpin(afterAlpha.val, det_beta, "b", "a")
    IN  IF ~afterAlpha.ok THEN [ok |-> FALSE, val |-> <<>>]
        ELSE IF ~afterBeta.ok THEN [ok |-> FALSE, val |-> <<>>]
        ELSE IF ElectronsFound(afterBeta.val) # electrons THEN [ok |-> FALSE, val |-> <<>>]
        ELSE [ok |-> TRUE, val |-> afterBeta.val]

\* ---- the input file, in the PySCF notation the module docstring documents
\* a determinant as printed: "[0 1 2]"
RECURSIVE JoinDigits(_)
JoinDigits(det) ==
    IF det = <<>> THEN <<>>
    ELSE IF Len(det) = 1 THEN <<Digits[det[1] + 1]>>
    ELSE <<Digits[det[1] + 1], " ">> \o JoinDigits(Tail(det))

Bracketed(det) == <<"[">> \o JoinDigits(det) \o <<"]">>

\* a data line: "[0 1 2]  [0 1 3]   0.03"
DataLine(d) ==
    Bracketed(d.alpha) \o <<" ", " ">> \o Bracketed(d.beta) \o <<" ", " ", " ">> \o d.coeff

\* the column header: "alpha     beta     coeff"
HeaderLine ==
    <<"a", "l", "p", "h", "a", " ", " ", " ", " ", " ", "b", "e", "t", "a",
      " ", " ", " ", " ", " ", "c", "o", "e", "f", "f">>

Coefficients == {<<"0", ".", "9", "9">>}

\* the increasing index lists over 0..n-1
RECURSIVE SortedSeq(_)
SortedSeq(S) ==
    IF S = {} THEN <<>>
    ELSE LET m == CHOOSE x \in S : \A y \in S : x <= y
         IN  <<m>> \o SortedSeq(S \ {m})

Determinants(n) ==
    {[alpha |-> SortedSeq(A), beta |-> SortedSeq(B), coeff |-> c] :
        A \in SUBSET (0..(n - 1)), B \in SUBSET (0..(n - 1)), c \in Coefficients}

FileOf(header, ds) ==
    (IF header THEN <<HeaderLine>> ELSE <<>>) \o [i \in 1..Len(ds) |-> DataLine(ds[i])]

\* the generator is not running
GenIdle ==
    /\ total_electrons = 0 /\ frozen_core = 0 /\ active_electrons = 0
    /\ irrep_specs = <<>> /\ n_orbitals = 0 /\ irrep_positions = <<>>
    /\ pc = "off"
    /\ n_alpha = 0 /\ n_beta = 0 /\ distributions = {}
    /\ alpha_i = 0 /\ beta_i = 0 /\ alpha_pos = NoTuple /\ beta_pos = NoTuple
    /\ dist = <<>> /\ k = 0 /\ valid_config = TRUE
    /\ results = <<>>

\* the two data rows of the module docstring, run with -o 6 -e 6
DocstringExample ==
    /\ conv_n_orbitals = 6
    /\ conv_n_electrons = 6
    /\ dets = <<[alpha |-> <<0, 1, 2>>, beta |-> <<0, 1, 2>>, coeff |-> <<"0", ".", "9", "9">>],
                [alpha |-> <<0, 1, 2>>, beta |-> <<0, 1, 3>>, coeff |-> <<"0", ".", "0", "3">>]>>

InitConv ==
    /\ GenIdle
    /\ \/ DocstringExample
       \/ /\ conv_n_orbitals \in (MaxConvOrbitals - 1)..MaxConvOrbitals
          /\ conv_n_electrons \in 0..MaxConvElectrons
          /\ \E m \in 1..MaxLines : dets \in [1..m -> Determinants(MaxConvOrbitals)]
    /\ has_header \in BOOLEAN
    /\ infile = FileOf(has_header, dets)
    /\ file_pos = 0
    /\ outfile = <<>>
    /\ warnings = <<>>
    /\ conv_pc = "start"

\* the files are opened, the CSV header is written, and the first line is
\* consumed when it holds no digit (else the file is rewound)
ReadHeader ==
    /\ conv_pc = "start"
    /\ outfile' = <<[kind |-> "header"]>>
    /\ LET first_line == IF infile = <<>> THEN <<>> ELSE infile[1]
       IN  file_pos' = IF ~(\E i \in 1..Len(first_line) : IsDigit(first_line[i]))
                       THEN Min(1, Len(infile))
                       ELSE 0
    /\ conv_pc' = "lines"
    /\ UNCHANGED <<gen, conv_n_orbitals, conv_n_electrons, infile, warnings, dets,
                   has_header>>

\* one iteration of "for line in infile"
ProcessLine ==
    /\ conv_pc = "lines"
    /\ file_pos < Len(infile)
    /\ file_pos' = file_pos + 1
    /\ LET line == infile[file_pos + 1]
           parts == Split(line)
       IN  IF parts = <<>>
           THEN UNCHANGED <<outfile, warnings>>
           ELSE IF Len(parts) # 3
           THEN /\ warnings' = Append(warnings, [line |-> file_pos + 1, kind |-> "malformed"])
                /\ UNCHANGED outfile
           ELSE LET det_alpha == parse_determinant(parts[1])
                    det_beta == parse_determinant(parts[2])
                    occupation == det_to_occupation(conv_n_orbitals, conv_n_electrons,
                                                    det_alpha.val, det_beta.val)
                IN  IF det_alpha.ok /\ det_beta.ok /\ IsFloat(parts[3]) /\ occupation.ok
                    THEN /\ outfile' = Append(outfile,
                                 [kind |-> "row", det_alpha |-> parts[1],
                                  det_beta |-> parts[2], coeff |-> parts[3],
                                  occupation |-> occupation.val])
                         /\ UNCHANGED warnings
                    ELSE /\ warnings' = Append(warnings,
                                 [line |-> file_pos + 1, kind |-> "error"])
                         /\ UNCHANGED outfile
    /\ UNCHANGED <<gen, conv_n_orbitals, conv_n_electrons, infile, conv_pc, dets,
                   has_header>>

\* the input is exhausted: both files are closed
Finish ==
    /\ conv_pc = "lines"
    /\ file_pos >= Len(infile)
    /\ conv_pc' = "done"
    /\ UNCHANGED <<gen, conv_n_orbitals, conv_n_electrons, infile, file_pos, outfile,
                   warnings, dets, has_header>>

NextConv == ReadHeader \/ ProcessLine \/ Finish

SpecConv == InitConv /\ [][NextConv]_vars

\* ------------------------------------------- vocabulary of the properties
\* frozen_core <= total_electrons (both are non-negative in every state)
ValidInput == frozen_core <= total_electrons

Has(s, c) == \E i \in 1..Len(s) : s[i] = c

\* the configuration string with its separating spaces removed
Ungroup(s) == SelectSeq(s, LAMBDA c : c # " ")

SymbolWeight(c) == IF c = "2" THEN 2 ELSE IF c \in {"a", "b"} THEN 1 ELSE 0

RECURSIVE Weight(_)
Weight(s) == IF s = <<>> THEN 0 ELSE SymbolWeight(Head(s)) + Weight(Tail(s))

\* a call has just returned or none has started; `results` changes only in the
\* step that returns, so every value it takes is seen in such a state
AtRest == pc = "idle"

\* every string returned by some completed call
Returned == UNION {results[i] : i \in 1..Len(results)}

\* the subsets of {0..n-1} of size m
KSubsets(n, m) == {S \in SUBSET (0..(n - 1)) : Cardinality(S) = m}

\* the occupation of the pair (A, B) of an alpha and a beta placement
Occupation(n, A, B) ==
    [i \in 1..n |-> IF (i - 1) \in A /\ (i - 1) \in B THEN "2"
                    ELSE IF (i - 1) \in A THEN "a"
                    ELSE IF (i - 1) \in B THEN "b"
                    ELSE "0"]

\* the number of orbitals in the first j irreps
Cum(j) == SumSeq(SubSeq(irrep_specs, 1, j))

\* where the separators of a grouped string stand: after each irrep but the last
SeparatorPositions == {Cum(j) + j : j \in 1..(Len(irrep_specs) - 1)}

GroupedAtBoundaries(s) ==
    /\ {p \in 1..Len(s) : s[p] = " "} = SeparatorPositions
    /\ Len(Ungroup(s)) = SumSeq(irrep_specs)

RECURSIVE Factorial(_)
Factorial(n) == IF n <= 0 THEN 1 ELSE n * Factorial(n - 1)

Binomial(n, m) ==
    IF m < 0 \/ m > n THEN 0 ELSE Factorial(n) \div (Factorial(m) * Factorial(n - m))

\* ------------------------------------------------------------------- C1
\* C1: for valid inputs, every string a call returns has symbol weight
\* 2*'2' + 'a' + 'b' equal to total_electrons - frozen_core.
C1_WeightIsActiveElectrons ==
    (ValidInput /\ AtRest) =>
        \A s \in Returned : Weight(s) = total_electrons - frozen_core

C1_Witness ==
    /\ ValidInput
    /\ Len(results) >= 1
    /\ \E s \in results[1] : Has(s, "2") /\ Has(s, "b")

\* ------------------------------------------------------------------- C2
\* C2: for valid inputs, a call returns exactly the renderings of all pairs
\* (A, B) with A a subset of {0..N-1} of size active // 2 and B a subset of
\* size active - active // 2; one irrep of size 2 with 2 active electrons
\* gives exactly {"20", "02", "ab", "ba"}.
C2_ExactlyAllPairs ==
    (ValidInput /\ AtRest) =>
        LET active == total_electrons - frozen_core
            N == SumSeq(irrep_specs)
            na == active \div 2
            nb == active - na
            expected == {_format_configuration(Occupation(N, A, B),
                                               IrrepPositions(irrep_specs)) :
                            <<A, B>> \in KSubsets(N, na) \X KSubsets(N, nb)}
        IN  \A i \in 1..Len(results) :
                /\ results[i] = expected
                /\ (irrep_specs = <<2>> /\ active = 2) =>
                       results[i] = {<<"2", "0">>, <<"0", "2">>,
                                     <<"a", "b">>, <<"b", "a">>}

C2_Witness ==
    /\ Len(results) >= 1
    /\ irrep_specs = <<2>>
    /\ total_electrons - frozen_core = 2
    /\ <<"a", "b">> \in results[1]

\* ------------------------------------------------------------------- C3
\* C3: every returned string has N = sum(irrep_specs) symbols once the spaces
\* are removed, and its separators stand exactly at the cumulative irrep
\* boundaries in the order the irreps were supplied; {'A':1,'B':1} with 2
\* active electrons gives "2 0", "0 2", "a b", "b a".
C3_GroupedAtIrrepBoundaries ==
    AtRest =>
    /\ \A s \in Returned : GroupedAtBoundaries(s)
    /\ \A i \in 1..Len(results) :
           (irrep_specs = <<1, 1>> /\ active_electrons = 2) =>
               results[i] = {<<"2", " ", "0">>, <<"0", " ", "2">>,
                             <<"a", " ", "b">>, <<"b", " ", "a">>}

C3_Witness ==
    /\ Len(results) >= 1
    /\ irrep_specs = <<1, 2>>
    /\ <<"a", " ", "b", "0">> \in results[1]

\* ------------------------------------------------------------------- C4
\* group ::= [0ab2]+ ; line ::= group (" " group)*
MatchesLine(s) ==
    /\ s # <<>>
    /\ \A p \in 1..Len(s) : s[p] \in {"0", "a", "b", "2", " "}
    /\ s[1] # " "
    /\ s[Len(s)] # " "
    /\ \A p \in 1..(Len(s) - 1) : ~(s[p] = " " /\ s[p + 1] = " ")

\* C4: for every irrep_specs with non-negative counts (counts of 0 included)
\* every returned string matches the grammar: non-empty groups separated by
\* exactly one space, no leading or trailing separator.
C4_MatchesGrammar ==
    (AtRest /\ Len(irrep_specs) >= 1) => \A s \in Returned : MatchesLine(s)

\* ------------------------------------------------------------------- C5
\* C5: for valid inputs with n_alpha > N or n_beta > N the call raises no
\* error and returns the empty set.
C5_EmptyWhenTooManyElectrons ==
    (/\ ValidInput
     /\ \/ NAlpha(total_electrons - frozen_core) > SumSeq(irrep_specs)
        \/ NBeta(total_electrons - frozen_core) > SumSeq(irrep_specs))
    => /\ pc # "raised"
       /\ distributions = {}
       /\ \A i \in 1..Len(results) : results[i] = {}

C5_Witness ==
    /\ ValidInput
    /\ NBeta(total_electrons - frozen_core) > SumSeq(irrep_specs)
    /\ SumSeq(irrep_specs) >= 1
    /\ Len(results) >= 1

\* ------------------------------------------------------------------- C6
\* C6: with active_electrons = 0 a call returns exactly one configuration,
\* N copies of '0' grouped at the irrep boundaries, also for N = 0.
C6_ZeroElectronsOneConfiguration ==
    (ValidInput /\ AtRest /\ total_electrons = frozen_core) =>
        \A i \in 1..Len(results) :
            /\ Cardinality(results[i]) = 1
            /\ \A s \in results[i] :
                   /\ Ungroup(s) = [p \in 1..SumSeq(irrep_specs) |-> "0"]
                   /\ GroupedAtBoundaries(s)

C6_Witness ==
    /\ total_electrons = frozen_core
    /\ Len(results) >= 1
    /\ irrep_specs = <<0, 0>>
    /\ results[1] = {<<" ">>}

\* ------------------------------------------------------------------- C8
\* C8: no step of generate_configurations() changes a field of the generator,
\* and every completed call returns the same set as the first call.
C8_NoSideEffects ==
    [][/\ fields' = fields
       /\ \A i \in 1..Len(results') : results'[i] = results'[1]]_vars

C8_Witness ==
    /\ Len(results) = 2
    /\ Cardinality(results[2]) >= 4

\* ------------------------------------------------------------------- C9
\* C9: the discard branch is never taken: each position the beta overlay
\* visits holds '0' or 'a', valid_config stays True, and every
\* (alpha-placement, beta-placement) pair adds its string to the result.
C9_DiscardBranchUnreachable ==
    /\ valid_config = TRUE
    /\ (pc = "place_beta" /\ k <= Len(beta_pos)) =>
           dist[beta_pos[k] + 1] \in {"0", "a"}
    /\ (pc = "beta_loop" /\ beta_i >= 1) =>
           _format_configuration(dist, irrep_positions) \in distributions

C9_Witness ==
    /\ pc = "place_beta"
    /\ k = 2
    /\ k <= Len(beta_pos)
    /\ Has(dist, "2")
    /\ dist[beta_pos[k] + 1] = "0"

\* ------------------------------------------------------------------ C10
\* C10: two distinct placement pairs never render to the same string (a
\* string about to be added is not yet in the set), so for valid inputs the
\* returned set has C(N, n_alpha) * C(N, n_beta) elements.
C10_NoCollisions ==
    /\ (pc = "add" /\ valid_config) =>
           _format_configuration(dist, irrep_positions) \notin distributions
    /\ (ValidInput /\ AtRest) =>
           \A i \in 1..Len(results) :
               Cardinality(results[i]) =
                   Binomial(SumSeq(irrep_specs), (total_electrons - frozen_core) \div 2)
                   * Binomial(SumSeq(irrep_specs),
                              (total_electrons - frozen_core)
                              - (total_electrons - frozen_core) \div 2)

C10_Witness ==
    /\ Len(results) >= 1
    /\ irrep_specs = <<2, 2>>
    /\ total_electrons - frozen_core = 3
    /\ Cardinality(results[1]) = 24

\* ------------------------------------------------------------------- C7
\* the determinant's indices are orbitals of the active space and its
\* electrons are as many as the converter expects
WellFormed(d) ==
    /\ \A i \in 1..Len(d.alpha) : d.alpha[i] < conv_n_orbitals
    /\ \A i \in 1..Len(d.beta) : d.beta[i] < conv_n_orbitals
    /\ Len(d.alpha) + Len(d.beta) = conv_n_electrons

SetOf(s) == {s[i] : i \in 1..Len(s)}

\* the number of the input line that holds determinant i
LineOf(i) == i + (IF has_header THEN 1 ELSE 0)

\* C7: every data line in the documented PySCF format (bracketed
\* space-separated alpha list, bracketed space-separated beta list,
\* coefficient) becomes one output row carrying its occupation string, and is
\* not skipped as malformed.
C7_DocumentedLinesConverted ==
    \A i \in 1..Len(dets) :
        (WellFormed(dets[i]) /\ file_pos >= LineOf(i)) =>
            /\ \E r \in 1..Len(outfile) :
                   /\ outfile[r].kind = "row"
                   /\ outfile[r].occupation =
                          Occupation(conv_n_orbitals, SetOf(dets[i].alpha),
                                     SetOf(dets[i].beta))
            /\ ~\E w \in 1..Len(warnings) : warnings[w].line = LineOf(i)

\* the same, for the determinants that print as a single token each (at most
\* one index per spin): these are the lines the code does convert
C7_SingleTokenLinesConverted ==
    \A i \in 1..Len(dets) :
        (/\ WellFormed(dets[i]) /\ file_pos >= LineOf(i)
         /\ Len(dets[i].alpha) <= 1 /\ Len(dets[i].beta) <= 1) =>
            /\ \E r \in 1..Len(outfile) :
                   /\ outfile[r].kind = "row"
                   /\ outfile[r].occupation =
                          Occupation(conv_n_orbitals, SetOf(dets[i].alpha),
                                     SetOf(dets[i].beta))
            /\ ~\E w \in 1..Len(warnings) : warnings[w].line = LineOf(i)

=============================================================================
